---- MODULE Spec2Model ----
(***************************************************************************)
(* Host-side flasher for an STM32 bootloader (serialComm_stt.ipynb):       *)
(* the firmware image (BinaryFile), the protocol state machine (the        *)
(* SuperState subclasses driven by Context.execute) and the writes it      *)
(* issues to the serial port.                                              *)
(***************************************************************************)
EXTENDS Integers, Sequences, FiniteSets, TLC

VARIABLES
    pc,           \* position of the main program: "load", "loop", "raised",
                  \* "closed" (the loop was left and the port closed),
                  \* "reloaded" (after a second loadBinary call)
    exc,          \* the exception that ended the program ("none" while it runs)
    path,         \* the firmware file handed to loadBinary (index into Files)
    binaryFile,   \* the BinaryFile object (global of the notebook)
    state,        \* Context._state: the current state object
    serialString, \* the value the last readSerialBuffer call returned
    written,      \* byte strings the last tick wrote to the serial port
    txLog,        \* byte strings written since the machine last was in Idle_01
    stdout,       \* what the last tick printed
    ticksIn,      \* ticks executed by the current SendFlashData_04 object (saturating)
    attemptCntr,  \* attemptCntr of the main program
    cancel,       \* what keyboard.is_pressed('q') returned at the last exit check
    rxBuffer,     \* bytes pending in the input buffer of the serial port
    discarded     \* bytes the last reset_input_buffer call threw away

vars == <<pc, exc, path, binaryFile, state, serialString, written, txLog, stdout, ticksIn,
          attemptCntr, cancel, rxBuffer, discarded>>

----------------------------------------------------------------------------
(* Bounds of the model. *)

\* ticksIn counts up to fileSizePackets + MaxExtraTicks.
MaxExtraTicks == 2

\* The number of files in SizedFiles, one for each length in a row.
MaxSizedFiles == 40

\* The empty polls after which the loop gives up. The program's value,
\* 600000000000, is beyond the integers TLC has; attemptCntr is an unbounded
\* Python integer and only its comparison with this value is looked at.
AttemptBudget == 3

\* The device queues bytes only while fewer than this many are pending.
MaxPendingBytes == 8

----------------------------------------------------------------------------
(* Program constants. *)

BYTES_PER_PACKET == 4
\* filePackets[0x80] and filePackets[0x81] carry the version words.
SW_MAJOR_PACKET == 128
SW_MINOR_PACKET == 129
\* np.remainder(self.packetNum, 250)
PROGRESS_STEP == 250

----------------------------------------------------------------------------
(* Bytes, hex strings, integers. *)

Min(a, b) == IF a < b THEN a ELSE b

Reverse(s) == [i \in 1..Len(s) |-> s[Len(s) + 1 - i]]

HexChars == <<"0","1","2","3","4","5","6","7","8","9","a","b","c","d","e","f">>

\* bytes.hex(): two lowercase hex digits per byte.
Hex(bytes) ==
    [i \in 1..(2 * Len(bytes)) |->
        IF i % 2 = 1 THEN HexChars[(bytes[(i + 1) \div 2] \div 16) + 1]
                     ELSE HexChars[(bytes[i \div 2] % 16) + 1]]

HexVal(c) == (CHOOSE k \in 1..16 : HexChars[k] = c) - 1

\* bytes.fromhex() of a string of hex digit pairs.
FromHex(str) ==
    [i \in 1..(Len(str) \div 2) |-> 16 * HexVal(str[2 * i - 1]) + HexVal(str[2 * i])]

DecimalChars == {"0","1","2","3","4","5","6","7","8","9"}

RECURSIVE DecimalValue(_, _)
DecimalValue(str, n) ==
    IF n = 0 THEN 0 ELSE 10 * DecimalValue(str, n - 1) + HexVal(str[n])

\* int(str): the decimal value of a digit string; -1 stands for ValueError
\* (a character outside 0-9, or the empty string).
PyInt(str) ==
    IF Len(str) > 0 /\ \A i \in 1..Len(str) : str[i] \in DecimalChars
    THEN DecimalValue(str, Len(str))
    ELSE -1

\* n.to_bytes(length, 'big'); << -1 >> stands for OverflowError.
RECURSIVE ToBytes(_, _)
ToBytes(n, length) ==
    IF length = 0 THEN (IF n = 0 THEN << >> ELSE << -1 >>)
    ELSE LET hi == ToBytes(n \div 256, length - 1)
         IN  IF hi = << -1 >> THEN hi ELSE Append(hi, n % 256)

\* Bitwise exclusive or of two naturals.
RECURSIVE Xor(_, _)
Xor(a, b) ==
    IF a = 0 THEN b
    ELSE IF b = 0 THEN a
    ELSE ((a + b) % 2) + 2 * Xor(a \div 2, b \div 2)

\* One shift step of CRC-16/CCITT-FALSE (polynomial 0x1021, MSB first).
CrcShift(crc) ==
    IF crc >= 32768 THEN Xor((crc * 2) % 65536, 4129) ELSE (crc * 2) % 65536

RECURSIVE CrcBits(_, _)
CrcBits(crc, n) == IF n = 0 THEN crc ELSE CrcBits(CrcShift(crc), n - 1)

\* The CRC register after the bytes data[lo..hi], starting from crc. The range
\* is halved so that the evaluation depth stays logarithmic in its length.
RECURSIVE CrcRange(_, _, _, _)
CrcRange(crc, data, lo, hi) ==
    IF crc < 0 \/ lo > hi THEN crc
    ELSE IF lo = hi THEN CrcBits(Xor(crc, data[lo] * 256), 8)
    ELSE LET mid == (lo + hi) \div 2
         IN  CrcRange(CrcRange(crc, data, lo, mid), data, mid + 1, hi)

\* crcmod.predefined.Crc('crc-ccitt-false').update(data): initial value 0xFFFF.
Crc16(data) == CrcRange(65535, data, 1, Len(data))

----------------------------------------------------------------------------
(* The firmware files the model loads. *)

\* Each file: its length in bytes and the raw bytes of the two version words
\* at offsets 0x200 and 0x204; every other byte follows a fixed pattern.
Files == <<
    [len |-> 522,  major |-> <<16, 0, 0, 0>>, minor |-> <<2, 0, 0, 0>>],
    [len |-> 1000, major |-> <<1, 0, 0, 0>>,  minor |-> <<2, 0, 0, 0>>],
    [len |-> 520,  major |-> <<10, 0, 0, 0>>, minor |-> <<2, 0, 0, 0>>],
    [len |-> 520,  major |-> <<1, 0, 0, 0>>,  minor |-> <<0, 3, 0, 0>>],
    [len |-> 516,  major |-> <<1, 0, 0, 0>>,  minor |-> <<2, 0, 0, 0>>],
    [len |-> 512,  major |-> <<1, 0, 0, 0>>,  minor |-> <<2, 0, 0, 0>>],
    [len |-> 0,    major |-> <<1, 0, 0, 0>>,  minor |-> <<2, 0, 0, 0>>] >>

Paths == 1..Len(Files)

\* Files of every length around the shortest one that holds both version
\* words: from 7 bytes below the end of packet 0x80 upwards, so that some stop
\* before, some inside and some after packet 0x81.
SizedFiles ==
    [k \in 1..MaxSizedFiles |->
        [len |-> BYTES_PER_PACKET * SW_MINOR_PACKET - 8 + k,
         major |-> <<1, 0, 0, 0>>, minor |-> <<2, 0, 0, 0>>]]

AllFiles == Files \o SizedFiles

LoadPaths == 1..Len(AllFiles)

\* open(path, mode="rb").read()
FileBytes(p) ==
    LET f == AllFiles[p]
        majorAt == BYTES_PER_PACKET * SW_MAJOR_PACKET
        minorAt == BYTES_PER_PACKET * SW_MINOR_PACKET
    IN  [i \in 1..f.len |->
            IF i - 1 \in majorAt..(majorAt + 3) THEN f.major[i - majorAt]
            ELSE IF i - 1 \in minorAt..(minorAt + 3) THEN f.minor[i - minorAt]
            ELSE ((i - 1) * 37 + 11) % 256]

----------------------------------------------------------------------------
(* BinaryFile *)

\* BinaryFile.__init__
BinaryFile_init ==
    [fileData |-> << >>, fileSizeBytes |-> 0, fileSizePackets |-> 0,
     filePackets |-> << >>, SW_MAJOR |-> 0, SW_MINOR |-> 0,
     CRC_MSB |-> 0, CRC_LSB |-> 0]

\* math.ceil(len(self.fileData) / BinaryFile.BYTES_PER_PACKET)
PacketCount(data) == (Len(data) + BYTES_PER_PACKET - 1) \div BYTES_PER_PACKET

\* Faulty variant: a short last slice is filled up to 4 bytes before it is reversed.
Packet_Padded(data, idx) ==
    Reverse([j \in 1..BYTES_PER_PACKET |->
                IF idx * BYTES_PER_PACKET + j <= Len(data)
                THEN data[idx * BYTES_PER_PACKET + j] ELSE 0])

\* fileData[idx*4 : idx*4+4][::-1] for idx (0-based): a slice stops at the end
\* of the data, so the last packet holds only the bytes that remain.
Packet(data, idx) ==
    Reverse(SubSeq(data, idx * BYTES_PER_PACKET + 1,
                   Min(idx * BYTES_PER_PACKET + BYTES_PER_PACKET, Len(data))))

\* The packets one run of the slicing loop appends.
Packets(data) == [k \in 1..PacketCount(data) |-> Packet(data, k - 1)]

\* BinaryFile.loadBinary: the object it leaves and the exception it raises.
\* The loop appends to self.filePackets; the version words are read from
\* packets 0x80 and 0x81 of that list and fail with IndexError when absent.
loadBinary(self, data) ==
    LET packed == [self EXCEPT !.fileData = data,
                               !.fileSizeBytes = Len(data),
                               !.fileSizePackets = PacketCount(data),
                               !.filePackets = self.filePackets \o Packets(data)]
        crc == Crc16(data)
    IN  IF Len(packed.filePackets) <= SW_MAJOR_PACKET
        THEN [self |-> packed, exc |-> "IndexError"]
        ELSE LET withMajor ==
                     [packed EXCEPT !.SW_MAJOR = Hex(packed.filePackets[SW_MAJOR_PACKET + 1])]
             IN  IF Len(packed.filePackets) <= SW_MINOR_PACKET
                 THEN [self |-> withMajor, exc |-> "IndexError"]
                 ELSE [self |-> [withMajor EXCEPT
                                    !.SW_MINOR = Hex(packed.filePackets[SW_MINOR_PACKET + 1]),
                                    !.CRC_MSB = crc \div 256,
                                    !.CRC_LSB = crc % 256],
                       exc |-> "none"]

----------------------------------------------------------------------------
(* SerialInterface *)

\* What readSerialBuffer returns: None, or the bytes it read.
NoData == [isNone |-> TRUE, bytes |-> << >>]
Data(b) == [isNone |-> FALSE, bytes |-> b]

\* Faulty variant: the bytes beyond the 4 read stay in the input buffer.
readSerialBuffer_Keeping(pending) ==
    IF Len(pending) > 0
    THEN [ret |-> Data(SubSeq(pending, 1, Min(4, Len(pending)))),
          pending |-> SubSeq(pending, Min(4, Len(pending)) + 1, Len(pending)),
          discarded |-> << >>]
    ELSE [ret |-> NoData, pending |-> pending, discarded |-> << >>]

\* SerialInterface.readSerialBuffer on a port with the bytes pending in its
\* input buffer: what it returns, what is pending afterwards, and what
\* reset_input_buffer threw away. read(4) takes the first 4 bytes, or all of
\* them when fewer are pending at the timeout.
readSerialBuffer(pending) ==
    IF Len(pending) > 0
    THEN [ret |-> Data(SubSeq(pending, 1, Min(4, Len(pending)))),
          pending |-> << >>,
          discarded |-> SubSeq(pending, Min(4, Len(pending)) + 1, Len(pending))]
    ELSE [ret |-> NoData, pending |-> pending, discarded |-> << >>]

\* SerialInterface.writeSerialBuffer: the bytes written and the echo printed.
writeSerialBuffer(txBufferStr, echo) ==
    [wr |-> << FromHex(txBufferStr) >>,
     out |-> IF echo = 1 THEN << "TX->" >> ELSE << >>]

----------------------------------------------------------------------------
(* The states of the state machine. *)

NoState == [cls |-> "None"]
Idle_01 == [cls |-> "Idle_01"]
CheckHeaderAndEraseMem_02 == [cls |-> "CheckHeaderAndEraseMem_02"]
Prepare2Flash_03 == [cls |-> "Prepare2Flash_03"]
\* SendFlashData_04.__init__
SendFlashData_04 == [cls |-> "SendFlashData_04", packetNum |-> 0]
FlashDone_99 == [cls |-> "FlashDone_99"]
Error_98 == [cls |-> "Error_98"]

\* input is not None and len(input) > 0 and input[0] == op
HasOpcode(input, op) ==
    /\ ~input.isNone
    /\ Len(input.bytes) > 0
    /\ input.bytes[1] = op

\* The outcome of stateActions: the state object, the writes, the prints, the
\* exception raised.
Acted(self, wr, out, e) == [self |-> self, wr |-> wr, out |-> out, exc |-> e]
\* The outcome of stateTransition: the returned state (NoState for None).
Moved(next, wr, out, e) == [next |-> next, wr |-> wr, out |-> out, exc |-> e]

\* SuperState.stateActions
SuperState_stateActions(self, input) == Acted(self, << >>, << >>, "none")

\* Idle_01.stateTransition
Idle_01_stateTransition(bf, input) ==
    IF HasOpcode(input, 128)
    THEN LET found == << "Device found" >>
             major == PyInt(bf.SW_MAJOR)
             minor == PyInt(bf.SW_MINOR)
         IN  IF major = -1 THEN Moved(NoState, << >>, found, "ValueError")
             ELSE IF ToBytes(major, 1) = << -1 >>
                  THEN Moved(NoState, << >>, found, "OverflowError")
             ELSE IF minor = -1 THEN Moved(NoState, << >>, found, "ValueError")
             ELSE IF ToBytes(minor, 1) = << -1 >>
                  THEN Moved(NoState, << >>, found, "OverflowError")
             ELSE LET cmm == << 192 >> \o ToBytes(major, 1) \o ToBytes(minor, 1) \o << 255 >>
                      w == writeSerialBuffer(Hex(cmm), 1)
                  IN  Moved(CheckHeaderAndEraseMem_02, w.wr, found \o w.out, "none")
    ELSE Moved(NoState, << >>, << >>, "none")

\* CheckHeaderAndEraseMem_02.stateActions
CheckHeaderAndEraseMem_02_stateActions(self, input) ==
    IF HasOpcode(input, 129)
    THEN IF Len(input.bytes) < 2
         THEN Acted(self, << >>, << >>, "IndexError")
         ELSE Acted(self, << >>, << "Sector erased" >>, "none")
    ELSE Acted(self, << >>, << >>, "none")

\* Faulty variant: the erase-complete reply is written but the state is kept, so a
\* second 0x81 frame with the done flag is answered again.
CheckHeaderAndEraseMem_02_stateTransition_Stay(bf, input) ==
    IF HasOpcode(input, 142)
    THEN Moved(Idle_01, << >>, << "Already flashed" >>, "none")
    ELSE IF HasOpcode(input, 129) /\ Len(input.bytes) >= 3 /\ input.bytes[3] = 1
    THEN LET w == writeSerialBuffer(Hex(<< 193 >> \o ToBytes(bf.fileSizePackets, 3)), 1)
         IN  Moved(NoState, w.wr, w.out, "none")
    ELSE Moved(NoState, << >>, << >>, "none")

\* Faulty variant: the done flag is not looked at, every 0x81 frame ends the erase.
CheckHeaderAndEraseMem_02_stateTransition_AnyFlag(bf, input) ==
    IF HasOpcode(input, 142)
    THEN Moved(Idle_01, << >>, << "Already flashed" >>, "none")
    ELSE IF HasOpcode(input, 129)
    THEN LET w == writeSerialBuffer(Hex(<< 193 >> \o ToBytes(bf.fileSizePackets, 3)), 1)
         IN  Moved(Prepare2Flash_03, w.wr, w.out, "none")
    ELSE Moved(NoState, << >>, << >>, "none")

\* Faulty variant: the packet count is sent least significant byte first.
CheckHeaderAndEraseMem_02_stateTransition_LittleEndian(bf, input) ==
    IF HasOpcode(input, 142)
    THEN Moved(Idle_01, << >>, << "Already flashed" >>, "none")
    ELSE IF HasOpcode(input, 129) /\ Len(input.bytes) >= 3 /\ input.bytes[3] = 1
    THEN LET w == writeSerialBuffer(Hex(<< 193 >> \o Reverse(ToBytes(bf.fileSizePackets, 3))), 1)
         IN  Moved(Prepare2Flash_03, w.wr, w.out, "none")
    ELSE Moved(NoState, << >>, << >>, "none")

\* CheckHeaderAndEraseMem_02.stateTransition
CheckHeaderAndEraseMem_02_stateTransition(bf, input) ==
    IF HasOpcode(input, 142)
    THEN Moved(Idle_01, << >>, << "Already flashed" >>, "none")
    ELSE IF HasOpcode(input, 129)
    THEN IF Len(input.bytes) < 3
         THEN Moved(NoState, << >>, << >>, "IndexError")
         ELSE IF input.bytes[3] = 1
         THEN LET erased == << "All sectors erased" >>
                  fileSizePacketsHex == ToBytes(bf.fileSizePackets, 3)
              IN  IF fileSizePacketsHex = << -1 >>
                  THEN Moved(NoState, << >>, erased, "OverflowError")
                  ELSE LET cmm == << 193 >> \o fileSizePacketsHex
                           w == writeSerialBuffer(Hex(cmm), 1)
                       IN  Moved(Prepare2Flash_03, w.wr, erased \o w.out, "none")
         ELSE Moved(NoState, << >>, << >>, "none")
    ELSE Moved(NoState, << >>, << >>, "none")

\* Prepare2Flash_03.stateActions
Prepare2Flash_03_stateActions(self, input) ==
    IF HasOpcode(input, 129)
    THEN Acted(self, << >>, << "Waiting MCU readiness" >>, "none")
    ELSE Acted(self, << >>, << >>, "none")

\* Faulty variant: the new SendFlashData_04 object starts behind packets[0].
Prepare2Flash_03_stateTransition_Resume(input) ==
    IF HasOpcode(input, 130)
    THEN Moved([SendFlashData_04 EXCEPT !.packetNum = 1], << >>, << "Sw authorized" >>, "none")
    ELSE Moved(NoState, << >>, << >>, "none")

\* Prepare2Flash_03.stateTransition
Prepare2Flash_03_stateTransition(input) ==
    IF HasOpcode(input, 130)
    THEN Moved(SendFlashData_04, << >>, << "Sw authorized" >>, "none")
    ELSE Moved(NoState, << >>, << >>, "none")

\* The progress print of SendFlashData_04.stateActions.
Progress(packetNum) ==
    IF packetNum % PROGRESS_STEP = 0 THEN << "Transmitted packets" >> ELSE << >>

\* Faulty variant: the packet is written but the counter is not incremented.
SendFlashData_04_stateActions_NoIncrement(self, bf, input) ==
    IF self.packetNum < bf.fileSizePackets
    THEN LET w == writeSerialBuffer(Hex(bf.filePackets[self.packetNum + 1]), 0)
         IN  Acted(self, w.wr, w.out, "none")
    ELSE Acted(self, << >>, << >>, "none")

\* Faulty variant: the last packet is never sent.
SendFlashData_04_stateActions_StopsEarly(self, bf, input) ==
    IF self.packetNum < bf.fileSizePackets - 1
    THEN LET w == writeSerialBuffer(Hex(bf.filePackets[self.packetNum + 1]), 0)
             sent == [self EXCEPT !.packetNum = self.packetNum + 1]
         IN  Acted(sent, w.wr, w.out \o Progress(sent.packetNum), "none")
    ELSE Acted(self, << >>, Progress(self.packetNum), "none")

\* SendFlashData_04.stateActions
SendFlashData_04_stateActions(self, bf, input) ==
    IF self.packetNum < bf.fileSizePackets
    THEN LET w == writeSerialBuffer(Hex(bf.filePackets[self.packetNum + 1]), 0)
             sent == [self EXCEPT !.packetNum = self.packetNum + 1]
         IN  Acted(sent, w.wr, w.out \o Progress(sent.packetNum), "none")
    ELSE Acted(self, << >>, Progress(self.packetNum), "none")

\* Faulty variant: a reported CRC that differs from the image's blocks the transition.
SendFlashData_04_stateTransition_Blocking(bf, input) ==
    IF HasOpcode(input, 132)
    THEN IF Len(input.bytes) >= 4 /\ input.bytes[3] = bf.CRC_MSB
            /\ input.bytes[4] = bf.CRC_LSB
         THEN Moved(FlashDone_99, << >>, << "CRC matched" >>, "none")
         ELSE Moved(NoState, << >>, << "CRC not matched" >>, "none")
    ELSE IF HasOpcode(input, 143)
    THEN Moved(Error_98, << >>, << "Error!" >>, "none")
    ELSE Moved(NoState, << >>, << >>, "none")

\* SendFlashData_04.stateTransition
SendFlashData_04_stateTransition(bf, input) ==
    IF HasOpcode(input, 132)
    THEN LET finished == << "Transmission finished" >>
         IN  IF Len(input.bytes) < 3
             THEN Moved(NoState, << >>, finished, "IndexError")
             ELSE IF input.bytes[3] = bf.CRC_MSB
             THEN IF Len(input.bytes) < 4
                  THEN Moved(NoState, << >>, finished, "IndexError")
                  ELSE IF input.bytes[4] = bf.CRC_LSB
                  THEN Moved(FlashDone_99, << >>, finished \o << "CRC matched" >>, "none")
                  ELSE Moved(FlashDone_99, << >>, finished \o << "CRC not matched" >>, "none")
             ELSE Moved(FlashDone_99, << >>, finished \o << "CRC not matched" >>, "none")
    ELSE IF HasOpcode(input, 143)
    THEN Moved(Error_98, << >>, << "Error!" >>, "none")
    ELSE Moved(NoState, << >>, << >>, "none")

\* FlashDone_99.stateTransition
FlashDone_99_stateTransition(input) ==
    IF HasOpcode(input, 133)
    THEN Moved(Idle_01, << >>, << "Bootloader finished" >>, "none")
    ELSE Moved(NoState, << >>, << >>, "none")

\* Faulty variant: Error_98 waits for a read that returned data before it resets.
Error_98_stateTransition_OnData(input) ==
    IF input.isNone
    THEN Moved(NoState, << >>, << >>, "none")
    ELSE Moved(Idle_01, << >>, << "Process error. Aborting!" >>, "none")

\* Faulty variant: Error_98 reports the abort to the device before it resets.
Error_98_stateTransition_Reporting(input) ==
    Moved(Idle_01, << <<207, 255, 255, 255>> >>, << "Process error. Aborting!" >>, "none")

\* Error_98.stateTransition
Error_98_stateTransition(input) ==
    Moved(Idle_01, << >>, << "Process error. Aborting!" >>, "none")

\* self._state.stateActions(input), dispatched on the class of the state.
stateActions(self, bf, input) ==
    CASE self.cls = "CheckHeaderAndEraseMem_02" ->
             CheckHeaderAndEraseMem_02_stateActions(self, input)
      [] self.cls = "Prepare2Flash_03" -> Prepare2Flash_03_stateActions(self, input)
      [] self.cls = "SendFlashData_04" -> SendFlashData_04_stateActions(self, bf, input)
      [] OTHER -> SuperState_stateActions(self, input)

\* Faulty variant: SendFlashData_04 looks at its input only when every packet
\* has been sent.
stateTransition_WaitForAll(self, bf, input) ==
    CASE self.cls = "Idle_01" -> Idle_01_stateTransition(bf, input)
      [] self.cls = "CheckHeaderAndEraseMem_02" ->
             CheckHeaderAndEraseMem_02_stateTransition(bf, input)
      [] self.cls = "Prepare2Flash_03" -> Prepare2Flash_03_stateTransition(input)
      [] self.cls = "SendFlashData_04" ->
             IF self.packetNum < bf.fileSizePackets
             THEN Moved(NoState, << >>, << >>, "none")
             ELSE SendFlashData_04_stateTransition(bf, input)
      [] self.cls = "FlashDone_99" -> FlashDone_99_stateTransition(input)
      [] self.cls = "Error_98" -> Error_98_stateTransition(input)

\* self._state.stateTransition(input), dispatched on the class of the state.
stateTransition(self, bf, input) ==
    CASE self.cls = "Idle_01" -> Idle_01_stateTransition(bf, input)
      [] self.cls = "CheckHeaderAndEraseMem_02" ->
             CheckHeaderAndEraseMem_02_stateTransition(bf, input)
      [] self.cls = "Prepare2Flash_03" -> Prepare2Flash_03_stateTransition(input)
      [] self.cls = "SendFlashData_04" -> SendFlashData_04_stateTransition(bf, input)
      [] self.cls = "FlashDone_99" -> FlashDone_99_stateTransition(input)
      [] self.cls = "Error_98" -> Error_98_stateTransition(input)

\* Faulty variant: the transition is evaluated first and the action that runs is
\* the one of the state the tick ends in.
Context_execute_TransitionFirst(self, bf, input) ==
    LET t == stateTransition(self, bf, input)
    IN  IF t.exc # "none"
        THEN [state |-> self, wr |-> t.wr, out |-> t.out, exc |-> t.exc]
        ELSE LET a == stateActions(IF t.next # NoState THEN t.next ELSE self, bf, input)
             IN  [state |-> a.self,
                  wr |-> t.wr \o a.wr,
                  out |-> t.out \o a.out,
                  exc |-> a.exc]

\* Context.execute: the action of the current state, then its transition; the
\* state is replaced only when the transition returned one. An exception in
\* stateActions skips the transition. The outcome a of stateActions is bound
\* once, as the element of a one-element set.
Context_execute(self, bf, input) ==
    LET Transit(a) ==
            IF a.exc # "none"
            THEN [state |-> a.self, wr |-> a.wr, out |-> a.out, exc |-> a.exc]
            ELSE LET t == stateTransition(a.self, bf, input)
                 IN  [state |-> IF t.exc = "none" /\ t.next # NoState THEN t.next ELSE a.self,
                      wr |-> a.wr \o t.wr,
                      out |-> a.out \o t.out,
                      exc |-> t.exc]
    IN  CHOOSE r \in {Transit(a) : a \in {stateActions(self, bf, input)}} : TRUE

----------------------------------------------------------------------------
(* What the device side can make a poll return. *)

\* The 4-byte frames of the protocol; the 0x84 frame with the CRC of the loaded
\* image, with another high byte and with another low byte.
DeviceFrames(bf) ==
    { <<128, 255, 255, 255>>, <<129, 6, 0, 255>>, <<129, 10, 1, 255>>,
      <<142, 255, 255, 255>>, <<130, 255, 255, 255>>, <<131, 6, 0, 255>>,
      <<132, 0, bf.CRC_MSB, bf.CRC_LSB>>,
      <<132, 0, (bf.CRC_MSB + 1) % 256, bf.CRC_LSB>>,
      <<132, 0, bf.CRC_MSB, (bf.CRC_LSB + 1) % 256>>,
      <<143, 255, 255, 255>>, <<133, 255, 255, 255>> }

\* read(4) returns fewer than 4 bytes when fewer are pending at the timeout.
ShortReads(bf) ==
    { <<128>>, <<129>>, <<129, 10>>, <<129, 10, 1>>, <<132, 0>>,
      <<132, 0, bf.CRC_MSB>>, <<132, 0, (bf.CRC_MSB + 1) % 256>>, <<143>> }

\* Every value readSerialBuffer hands to the state machine.
Inputs(bf) ==
    {NoData} \cup {Data(b) : b \in DeviceFrames(bf) \cup ShortReads(bf)}

----------------------------------------------------------------------------
(* The main program. *)

\* binaryFile = BinaryFile(); no Context exists before the image is loaded.
Init ==
    /\ pc = "load"
    /\ exc = "none"
    /\ path \in Paths
    /\ binaryFile = BinaryFile_init
    /\ state = NoState
    /\ serialString = NoData
    /\ written = << >>
    /\ txLog = << >>
    /\ stdout = << >>
    /\ ticksIn = 0
    /\ attemptCntr = 0
    /\ cancel = FALSE
    /\ rxBuffer = << >>
    /\ discarded = << >>

\* Faulty variant: the exception of loadBinary is swallowed and the session starts.
Load_Anyway ==
    /\ pc = "load"
    /\ \E r \in {loadBinary(binaryFile, FileBytes(path))} :
           /\ binaryFile' = r.self
           /\ exc' = "none"
           /\ pc' = "loop"
           /\ state' = Idle_01
    /\ UNCHANGED <<path, serialString, written, txLog, stdout, ticksIn, attemptCntr, cancel,
                   rxBuffer, discarded>>

\* binaryFile.loadBinary(path); context = Context(Idle_01())
Load ==
    /\ pc = "load"
    /\ \E r \in {loadBinary(binaryFile, FileBytes(path))} :
           /\ binaryFile' = r.self
           /\ exc' = r.exc
           /\ pc' = IF r.exc = "none" THEN "loop" ELSE "raised"
           /\ state' = IF r.exc = "none" THEN Idle_01 ELSE NoState
    /\ UNCHANGED <<path, serialString, written, txLog, stdout, ticksIn, attemptCntr, cancel,
                   rxBuffer, discarded>>

\* serialString = readSerialBuffer(); context.execute(serialString), with the
\* outcome r of Context.execute. txLog is the record of one session: it is
\* emptied when the machine is back in Idle_01. ticksIn counts the ticks the
\* current SendFlashData_04 object has executed.
Polled(input, r) ==
    /\ serialString' = input
    /\ state' = r.state
    /\ written' = r.wr
    /\ txLog' = IF r.state.cls = "Idle_01" THEN << >> ELSE txLog \o r.wr
    /\ exc' = r.exc
    /\ ticksIn' = IF r.state.cls # "SendFlashData_04" THEN 0
                  ELSE IF state.cls # "SendFlashData_04" THEN 0
                  ELSE Min(ticksIn + 1, binaryFile.fileSizePackets + MaxExtraTicks)

\* Faulty variant: a packet that was sent is taken out of the image.
Execute_Consuming(input) ==
    /\ pc = "loop"
    /\ \E r \in {Context_execute(state, binaryFile, input)} :
           /\ Polled(input, r)
           /\ stdout' = r.out
           /\ pc' = IF r.exc = "none" THEN "loop" ELSE "raised"
           /\ binaryFile' = IF state.cls = "SendFlashData_04" /\ r.wr # << >>
                             THEN [binaryFile EXCEPT !.filePackets[state.packetNum + 1] = << >>]
                             ELSE binaryFile
    /\ UNCHANGED <<path, attemptCntr, cancel, rxBuffer, discarded>>

\* An iteration of the polling loop that does not leave it: no key is pressed
\* and attemptCntr, far below its limit, is not followed.
Execute(input) ==
    /\ pc = "loop"
    /\ \E r \in {Context_execute(state, binaryFile, input)} :
           /\ Polled(input, r)
           /\ stdout' = r.out
           /\ pc' = IF r.exc = "none" THEN "loop" ELSE "raised"
    /\ UNCHANGED <<path, binaryFile, attemptCntr, cancel, rxBuffer, discarded>>

Tick == \E input \in Inputs(binaryFile) : Execute(input)

Next == Load \/ Tick

Spec == Init /\ [][Next]_vars

----------------------------------------------------------------------------
(* The polling loop with a device that sends neither 0x84 nor 0x8F while the *)
(* host streams. The loop is "while 1": as long as the program has not       *)
(* ended, the next iteration is taken, which is weak fairness of the tick.   *)

QuietTick ==
    \E input \in Inputs(binaryFile) :
        /\ state.cls = "SendFlashData_04"
              => (~HasOpcode(input, 132) /\ ~HasOpcode(input, 143))
        /\ Execute(input)

NextQuiet == Load \/ QuietTick

SpecQuiet == Init /\ [][NextQuiet]_vars /\ WF_vars(QuietTick)

----------------------------------------------------------------------------
(* The polling loop with its exit: the count of empty polls and the key.     *)

\* One whole iteration: the poll, context.execute, attemptCntr += 1 when the
\* poll returned None, the exit check with q = keyboard.is_pressed('q'). An
\* exception in context.execute ends the program before the counter and the
\* check.
Iterate(input, q) ==
    /\ pc = "loop"
    /\ \E r \in {Context_execute(state, binaryFile, input)} :
           /\ Polled(input, r)
           /\ IF r.exc # "none"
              THEN /\ pc' = "raised"
                   /\ stdout' = r.out
                   /\ UNCHANGED <<attemptCntr, cancel>>
              ELSE /\ attemptCntr' = IF input.isNone THEN attemptCntr + 1 ELSE attemptCntr
                   /\ cancel' = q
                   /\ IF q \/ attemptCntr' >= AttemptBudget
                      THEN /\ pc' = "closed"
                           /\ stdout' = r.out \o << "Stop serial pooling!" >>
                      ELSE /\ pc' = "loop"
                           /\ stdout' = r.out
    /\ UNCHANGED <<path, binaryFile, rxBuffer, discarded>>

Iteration == \E input \in Inputs(binaryFile), q \in BOOLEAN : Iterate(input, q)

NextDriver == Load \/ Iteration

SpecDriver == Init /\ [][NextDriver]_vars

----------------------------------------------------------------------------
(* The polling loop with the input buffer of the serial port: the device     *)
(* queues bytes at any time, readSerialBuffer takes them out.                *)

\* What the device puts on the line in one go: the frames of a session, an
\* informational 0x83 frame, and the first half of that frame (the bytes of a
\* frame arrive one after the other, a poll can fall between them).
DeviceChunks(bf) ==
    { <<128, 255, 255, 255>>, <<129, 10, 1, 255>>, <<130, 255, 255, 255>>,
      <<131, 6, 0, 255>>, <<132, 0, bf.CRC_MSB, bf.CRC_LSB>>,
      <<131, 6>> }

\* The device sends while the host is in its loop.
DeviceSend ==
    /\ pc = "loop"
    /\ \E chunk \in DeviceChunks(binaryFile) :
           /\ Len(rxBuffer) + Len(chunk) <= MaxPendingBytes
           /\ rxBuffer' = rxBuffer \o chunk
    /\ UNCHANGED <<pc, exc, path, binaryFile, state, serialString, written, txLog, stdout,
                   ticksIn, attemptCntr, cancel, discarded>>

\* An iteration of the polling loop that does not leave it, the read taken
\* from the input buffer.
Poll ==
    /\ pc = "loop"
    /\ \E rd \in {readSerialBuffer(rxBuffer)} :
           /\ rxBuffer' = rd.pending
           /\ discarded' = rd.discarded
           /\ \E r \in {Context_execute(state, binaryFile, rd.ret)} :
                  /\ Polled(rd.ret, r)
                  /\ stdout' = r.out
                  /\ pc' = IF r.exc = "none" THEN "loop" ELSE "raised"
    /\ UNCHANGED <<path, binaryFile, attemptCntr, cancel>>

\* The 522-byte file.
PortPaths == {1}

InitPort == Init /\ path \in PortPaths

NextPort == Load \/ DeviceSend \/ Poll

SpecPort == InitPort /\ [][NextPort]_vars

----------------------------------------------------------------------------
(* Loading alone: loadBinary on files of many lengths, and a second          *)
(* loadBinary call with the same file on the loaded object.                  *)

InitLoad ==
    /\ pc = "load"
    /\ exc = "none"
    /\ path \in LoadPaths
    /\ binaryFile = BinaryFile_init
    /\ state = NoState
    /\ serialString = NoData
    /\ written = << >>
    /\ txLog = << >>
    /\ stdout = << >>
    /\ ticksIn = 0
    /\ attemptCntr = 0
    /\ cancel = FALSE
    /\ rxBuffer = << >>
    /\ discarded = << >>

\* binaryFile.loadBinary(path) once more, on the object the first call left.
Reload ==
    /\ pc = "loop"
    /\ \E r \in {loadBinary(binaryFile, FileBytes(path))} :
           /\ binaryFile' = r.self
           /\ exc' = r.exc
           /\ pc' = IF r.exc = "none" THEN "reloaded" ELSE "raised"
    /\ UNCHANGED <<path, state, serialString, written, txLog, stdout, ticksIn,
                   attemptCntr, cancel, rxBuffer, discarded>>

NextLoad == Load \/ Reload

SpecLoad == InitLoad /\ [][NextLoad]_vars

----------------------------------------------------------------------------
(* The erase phase alone, for images of any packet count. An image of 2^16   *)
(* or 2^24 packets is given by its packet count and version words, its bytes *)
(* and packets left out: CheckHeaderAndEraseMem_02 reads fileSizePackets and *)
(* nothing else of binaryFile. Counts below 0x82 are in the set because the  *)
(* encoding is defined for them, although no loaded image has them.          *)

EraseCounts ==
    {0, 1, 130, 255, 256, 257, 65535, 65536, 65537, 16777215, 16777216}

EraseImage(n) ==
    [BinaryFile_init EXCEPT !.fileSizePackets = n,
                            !.SW_MAJOR = Hex(<<0, 0, 0, 1>>),
                            !.SW_MINOR = Hex(<<0, 0, 0, 2>>)]

\* The state Idle_01 leaves on 80 FF FF FF: the C0 reply is written and the
\* machine is in CheckHeaderAndEraseMem_02. path 0 is a file outside AllFiles.
InitErase ==
    /\ pc = "loop"
    /\ exc = "none"
    /\ path = 0
    /\ \E n \in EraseCounts : binaryFile = EraseImage(n)
    /\ state = CheckHeaderAndEraseMem_02
    /\ serialString = Data(<<128, 255, 255, 255>>)
    /\ written = << <<192, 1, 2, 255>> >>
    /\ txLog = << <<192, 1, 2, 255>> >>
    /\ stdout = << "Device found", "TX->" >>
    /\ ticksIn = 0
    /\ attemptCntr = 0
    /\ cancel = FALSE
    /\ rxBuffer = << >>
    /\ discarded = << >>

\* 0x81 frames with other values of the done flag than 0 and 1.
EraseFrames == {Data(<<129, 10, flag, 255>>) : flag \in {2, 16, 255}}

\* A tick of the polling loop while the machine is in CheckHeaderAndEraseMem_02.
EraseTick ==
    /\ state = CheckHeaderAndEraseMem_02
    /\ \E input \in Inputs(binaryFile) \cup EraseFrames : Execute(input)

NextErase == EraseTick

SpecErase == InitErase /\ [][NextErase]_vars

----------------------------------------------------------------------------
(* Vocabulary of the properties. *)

\* The input of a step of the polling loop is serialString'.
IsFrame(input) == ~input.isNone /\ Len(input.bytes) = 4
IsShort(input) == ~input.isNone /\ Len(input.bytes) < 4

Loaded == state # NoState
PacketTotal == binaryFile.fileSizePackets

\* C0 <major> <minor> FF, the version bytes as the decimal reading of the
\* version words' hex text.
VersionReply == << 192, PyInt(binaryFile.SW_MAJOR), PyInt(binaryFile.SW_MINOR), 255 >>

\* C1 followed by packetCount as 3 bytes, most significant first.
CountReply ==
    << 193, PacketTotal \div 65536, (PacketTotal \div 256) % 256, PacketTotal % 256 >>

\* Everything a complete session writes, in order.
SessionWrites ==
    << VersionReply, CountReply >> \o [k \in 1..PacketTotal |-> binaryFile.filePackets[k]]

\* The packet a tick in SendFlashData_04 writes, if any.
NextPacket ==
    IF state.packetNum < PacketTotal
    THEN << binaryFile.filePackets[state.packetNum + 1] >> ELSE << >>

InStdout(msg) == \E i \in 1..Len(stdout) : stdout[i] = msg

----------------------------------------------------------------------------
(* C1..C10 *)

\* C1: Handshake scenario. From Idle_01 the frame 80 FF FF FF is answered with
\* C0 <major> <minor> FF and leads to CheckHeaderAndEraseMem_02; there, no-data
\* ticks and 81 06 00 FF write nothing and keep the state; 81 0A 01 FF is
\* answered with C1 <packetCount> and leads to Prepare2Flash_03, so that the
\* session has written exactly the two replies; no-data ticks in Idle_01 and
\* Prepare2Flash_03 change nothing.
C1_Handshake ==
    [][pc = "loop" =>
        /\ (state = Idle_01 /\ serialString' = Data(<<128, 255, 255, 255>>))
              => /\ pc' = "loop"
                 /\ state' = CheckHeaderAndEraseMem_02
                 /\ txLog' = << VersionReply >>
        /\ (/\ state = CheckHeaderAndEraseMem_02
            /\ txLog = << VersionReply >>
            /\ serialString' \in {NoData, Data(<<129, 6, 0, 255>>)})
              => /\ pc' = "loop"
                 /\ state' = state
                 /\ txLog' = txLog
        /\ (/\ state = CheckHeaderAndEraseMem_02
            /\ txLog = << VersionReply >>
            /\ serialString' = Data(<<129, 10, 1, 255>>))
              => /\ pc' = "loop"
                 /\ state' = Prepare2Flash_03
                 /\ txLog' = << VersionReply, CountReply >>
        /\ (state \in {Idle_01, Prepare2Flash_03} /\ serialString' = NoData)
              => /\ pc' = "loop"
                 /\ state' = state
                 /\ txLog' = txLog
    ]_vars

\* C2: Output ordering within a session. The writes since the machine last
\* left Idle_01 are an initial part of: the C0 reply, the C1 reply, packets[0],
\* packets[1], ... in index order, nothing else and nothing twice; the state
\* tells how far the session has got.
C2_SessionOrder ==
    Loaded =>
        /\ Len(txLog) <= Len(SessionWrites)
        /\ \A i \in 1..Len(txLog) : txLog[i] = SessionWrites[i]
        /\ state.cls = "Idle_01" => Len(txLog) = 0
        /\ state.cls = "CheckHeaderAndEraseMem_02" => Len(txLog) = 1
        /\ state.cls = "Prepare2Flash_03" => Len(txLog) = 2
        /\ state.cls = "SendFlashData_04" => Len(txLog) = 2 + state.packetNum
        /\ state.cls \in {"FlashDone_99", "Error_98"} => Len(txLog) >= 2

\* A session that streamed the whole image and was closed by 0x84.
C2_Witness ==
    /\ state = FlashDone_99
    /\ Len(txLog) = PacketTotal + 2
    /\ txLog = SessionWrites

\* C3: Streaming completion. After k ticks of a SendFlashData_04 object the
\* counter is min(k, packetCount): each of the first packetCount ticks wrote
\* the next packet, every later tick wrote nothing.
C3_StreamingCompletion ==
    state.cls = "SendFlashData_04" =>
        /\ state.packetNum = Min(ticksIn, PacketTotal)
        /\ (ticksIn >= 1 /\ ticksIn <= PacketTotal)
              => written = << binaryFile.filePackets[ticksIn] >>
        /\ ticksIn > PacketTotal => written = << >>

\* More than packetCount ticks spent in SendFlashData_04, the last without data.
C3_Witness ==
    /\ state.cls = "SendFlashData_04"
    /\ ticksIn > PacketTotal
    /\ state.packetNum = PacketTotal
    /\ serialString = NoData

\* C4: Checksum mismatch is not blocking. In SendFlashData_04 a 4-byte frame
\* with opcode 0x84 leads to FlashDone_99 on that tick whatever its CRC bytes
\* are; the tick writes what any tick of that state writes.
C4_MismatchNotBlocking ==
    [][(/\ pc = "loop"
        /\ state.cls = "SendFlashData_04"
        /\ IsFrame(serialString')
        /\ serialString'.bytes[1] = 132)
          => /\ pc' = "loop"
             /\ state' = FlashDone_99
             /\ written' = NextPacket
    ]_vars

\* FlashDone_99 entered on a 0x84 frame whose CRC is not the image's.
C4_Witness ==
    /\ state = FlashDone_99
    /\ IsFrame(serialString)
    /\ serialString.bytes[1] = 132
    /\ serialString.bytes[3] # binaryFile.CRC_MSB
    /\ InStdout("CRC not matched")

\* C5: Version-skip scenario. From Idle_01 the frame 80 FF FF FF is answered
\* with the C0 reply and leads to CheckHeaderAndEraseMem_02; 8E FF FF FF then
\* leads straight back to Idle_01 and writes nothing, the C0 reply being all
\* the session wrote.
C5_VersionSkip ==
    [][pc = "loop" =>
        /\ (state = Idle_01 /\ serialString' = Data(<<128, 255, 255, 255>>))
              => /\ pc' = "loop"
                 /\ state' = CheckHeaderAndEraseMem_02
                 /\ written' = << VersionReply >>
                 /\ txLog' = written'
        /\ (/\ state = CheckHeaderAndEraseMem_02
            /\ serialString' = Data(<<142, 255, 255, 255>>))
              => /\ pc' = "loop"
                 /\ state' = Idle_01
                 /\ written' = << >>
                 /\ txLog = << VersionReply >>
    ]_vars

\* C6 as stated: a no-data tick changes nothing and has no side effect in
\* Idle_01, CheckHeaderAndEraseMem_02, Prepare2Flash_03, FlashDone_99 and
\* Error_98; in SendFlashData_04 it only sends the next packet while the
\* counter is below packetCount.
C6_NoFrameIdempotent ==
    [][(pc = "loop" /\ serialString' = NoData) =>
        IF state.cls = "SendFlashData_04"
        THEN /\ written' = NextPacket
             /\ state' = [state EXCEPT !.packetNum = state.packetNum + Len(NextPacket)]
             /\ stdout' = << >>
        ELSE /\ state' = state
             /\ written' = << >>
             /\ stdout' = << >>
    ]_vars

\* C6 amended: a no-data tick changes nothing and has no side effect in
\* Idle_01, CheckHeaderAndEraseMem_02, Prepare2Flash_03 and FlashDone_99; in
\* Error_98 it prints the abort message and moves to Idle_01, writing nothing;
\* in SendFlashData_04 it sends the next packet while the counter is below
\* packetCount and prints the progress message whenever the counter is then
\* a multiple of 250.
C6_NoFrameAmended ==
    [][(pc = "loop" /\ serialString' = NoData) =>
        /\ pc' = "loop"
        /\ IF state.cls = "SendFlashData_04"
           THEN /\ written' = NextPacket
                /\ state' = [state EXCEPT !.packetNum = state.packetNum + Len(NextPacket)]
                /\ stdout' = IF state'.packetNum % PROGRESS_STEP = 0
                             THEN << "Transmitted packets" >> ELSE << >>
           ELSE IF state.cls = "Error_98"
           THEN /\ state' = Idle_01
                /\ written' = << >>
                /\ stdout' = << "Process error. Aborting!" >>
           ELSE /\ state' = state
                /\ written' = << >>
                /\ stdout' = << >>
    ]_vars

\* A no-data tick has taken the machine from Error_98 to Idle_01.
C6_Witness ==
    /\ state = Idle_01
    /\ serialString = NoData
    /\ stdout = << "Process error. Aborting!" >>

\* C7: No hard failure on protocol input. A tick of the running loop never
\* ends in an exception, whatever the state and the read are.
C7_NoHardFailure ==
    [][pc = "loop" => (pc' = "loop" /\ exc' = "none")]_vars

\* C8: Short reads are no input. A read of 1 to 3 bytes has the effect of the
\* no-data signal: the same next state, nothing written, no exception.
C8_ShortReadIsNoData ==
    [][(pc = "loop" /\ IsShort(serialString')) =>
        /\ pc' = "loop"
        /\ state' = Context_execute(state, binaryFile, NoData).state
        /\ written' = Context_execute(state, binaryFile, NoData).wr
    ]_vars

\* C9: Every write is a 4-byte unit.
C9_FourByteWrites ==
    \A i \in 1..Len(written) : Len(written[i]) = 4

\* The opcodes (and flag) on which a state leaves: Idle_01 0x80;
\* CheckHeaderAndEraseMem_02 0x8E and 0x81 with done flag 1; Prepare2Flash_03
\* 0x82; SendFlashData_04 0x84 and 0x8F; FlashDone_99 0x85.
Expected(cls, bytes) ==
    CASE cls = "Idle_01" -> bytes[1] = 128
      [] cls = "CheckHeaderAndEraseMem_02" ->
             bytes[1] = 142 \/ (bytes[1] = 129 /\ bytes[3] = 1)
      [] cls = "Prepare2Flash_03" -> bytes[1] = 130
      [] cls = "SendFlashData_04" -> bytes[1] \in {132, 143}
      [] cls = "FlashDone_99" -> bytes[1] = 133
      [] OTHER -> TRUE

\* C10: Protocol mismatch keeps the state. A 4-byte frame that is not one the
\* current state leaves on keeps the machine in its state and is not answered:
\* the tick writes nothing, or in SendFlashData_04 the next packet.
C10_MismatchKeepsState ==
    [][(/\ pc = "loop"
        /\ IsFrame(serialString')
        /\ ~Expected(state.cls, serialString'.bytes))
          => /\ pc' = "loop"
             /\ state'.cls = state.cls
             /\ written' = IF state.cls = "SendFlashData_04" THEN NextPacket ELSE << >>
    ]_vars

\* A 0x80 frame received in Prepare2Flash_03 was not answered.
C10_Witness ==
    /\ state = Prepare2Flash_03
    /\ serialString = Data(<<128, 255, 255, 255>>)
    /\ written = << >>
    /\ Len(txLog) = 2

----------------------------------------------------------------------------
(* C11..C20 *)

\* C11: Device-reported error recovery. Error_98 is entered only from
\* SendFlashData_04 on a read whose opcode is 0x8F; the tick after leads to
\* Idle_01 whatever it reads and writes nothing; a C0 reply is written only on
\* a 0x80 received in Idle_01, so the read consumed in Error_98 is not answered.
C11_ErrorRecovery ==
    [][pc = "loop" =>
        /\ state'.cls = "Error_98"
              => (state.cls = "SendFlashData_04" /\ HasOpcode(serialString', 143))
        /\ state.cls = "Error_98"
              => /\ pc' = "loop"
                 /\ state' = Idle_01
                 /\ written' = << >>
        /\ (\E i \in 1..Len(written') : written'[i][1] = 192)
              => (state = Idle_01 /\ HasOpcode(serialString', 128))
    ]_vars

\* The tick in Error_98 consumed a 0x80 frame: the machine is in Idle_01 and
\* the frame was not answered.
C11_Witness ==
    /\ state = Idle_01
    /\ serialString = Data(<<128, 255, 255, 255>>)
    /\ stdout = << "Process error. Aborting!" >>
    /\ written = << >>

C13_LoadRepeatable ==
    [][(pc = "loop" /\ pc' = "reloaded") =>
        /\ binaryFile'.fileSizePackets = binaryFile.fileSizePackets
        /\ binaryFile'.filePackets = binaryFile.filePackets
        /\ Len(binaryFile'.filePackets) = binaryFile'.fileSizePackets
        /\ binaryFile'.SW_MAJOR = binaryFile.SW_MAJOR
        /\ binaryFile'.SW_MINOR = binaryFile.SW_MINOR
        /\ binaryFile'.CRC_MSB = binaryFile.CRC_MSB
        /\ binaryFile'.CRC_LSB = binaryFile.CRC_LSB
    ]_vars

\* C14: Erase-complete reply encoding. In CheckHeaderAndEraseMem_02, for every
\* packetCount below 2^24, a 4-byte 0x81 frame whose third byte is 1 makes the
\* tick write exactly one frame C1 b1 b2 b3 with b1*65536 + b2*256 + b3 =
\* packetCount and leads to Prepare2Flash_03; with any other third byte the
\* tick writes nothing and keeps the state.
C14_EraseReply ==
    [][(/\ pc = "loop"
        /\ state = CheckHeaderAndEraseMem_02
        /\ IsFrame(serialString')
        /\ serialString'.bytes[1] = 129
        /\ PacketTotal < 16777216)
          => IF serialString'.bytes[3] = 1
             THEN /\ pc' = "loop"
                  /\ state' = Prepare2Flash_03
                  /\ Len(written') = 1
                  /\ Len(written'[1]) = 4
                  /\ written'[1][1] = 193
                  /\ \A j \in 2..4 : written'[1][j] \in 0..255
                  /\ written'[1][2] * 65536 + written'[1][3] * 256 + written'[1][4]
                         = PacketTotal
             ELSE /\ pc' = "loop"
                  /\ state' = state
                  /\ written' = << >>
    ]_vars

\* The reply for an image of 65537 packets.
C14_Witness ==
    /\ state = Prepare2Flash_03
    /\ PacketTotal = 65537
    /\ serialString = Data(<<129, 10, 1, 255>>)
    /\ written = << <<193, 1, 0, 1>> >>

\* C15: Image load failure stops everything before the session. Once loadBinary
\* has run on a file of fewer than 0x82 packets the program has ended in
\* IndexError: there is no state machine, nothing was read from the serial port
\* and nothing was written to it.
C15_LoadFailure ==
    (pc # "load" /\ binaryFile.fileSizePackets < SW_MINOR_PACKET + 1) =>
        /\ pc = "raised"
        /\ exc = "IndexError"
        /\ state = NoState
        /\ serialString = NoData
        /\ written = << >>
        /\ txLog = << >>

\* The load of a file of 0x81 packets has failed: packet 0x81 does not exist.
C15_Witness ==
    /\ pc = "raised"
    /\ exc = "IndexError"
    /\ binaryFile.fileSizePackets = SW_MINOR_PACKET
    /\ Len(binaryFile.filePackets) = SW_MINOR_PACKET
    /\ state = NoState

\* C16: Tick order. A tick runs the action of the state it starts in, then the
\* transition, and not the action of the state it enters: the tick that takes
\* 81 xx 01 in CheckHeaderAndEraseMem_02 prints that state's "Sector erased"
\* and not the "Waiting MCU readiness" of Prepare2Flash_03; the tick that
\* takes 0x82 in Prepare2Flash_03 writes no packet and the first tick of
\* SendFlashData_04 writes packets[0]; a tick of SendFlashData_04 that takes
\* 0x84 or 0x8F writes the next packet, if one is left, and leaves the state.
C16_TickOrder ==
    [][pc = "loop" =>
        /\ (/\ state = CheckHeaderAndEraseMem_02
            /\ IsFrame(serialString')
            /\ serialString'.bytes[1] = 129
            /\ serialString'.bytes[3] = 1)
              => /\ state' = Prepare2Flash_03
                 /\ stdout'[1] = "Sector erased"
                 /\ \A i \in 1..Len(stdout') : stdout'[i] # "Waiting MCU readiness"
        /\ (state = Prepare2Flash_03 /\ HasOpcode(serialString', 130))
              => /\ pc' = "loop"
                 /\ state' = SendFlashData_04
                 /\ written' = << >>
        /\ state = SendFlashData_04
              => written' = << binaryFile.filePackets[1] >>
        /\ (/\ state.cls = "SendFlashData_04"
            /\ IsFrame(serialString')
            /\ serialString'.bytes[1] \in {132, 143})
              => /\ written' = NextPacket
                 /\ state'.cls = IF serialString'.bytes[1] = 132
                                 THEN "FlashDone_99" ELSE "Error_98"
    ]_vars

\* A tick of SendFlashData_04 took a 0x84 frame before the last packet: it
\* wrote one more packet and the machine is in FlashDone_99.
C16_Witness ==
    /\ state = FlashDone_99
    /\ IsFrame(serialString)
    /\ Len(written) = 1
    /\ Len(txLog) < PacketTotal + 2
    /\ written[1] = binaryFile.filePackets[Len(txLog) - 2]

\* C17: Packet-counter invariant. Whenever a tick ends in SendFlashData_04 the
\* counter is within 0..packetCount and is the number of packets written
\* since the state was entered: the state is entered only from
\* Prepare2Flash_03 on 0x82, with counter 0 and no packet written, and every
\* tick inside it adds to the counter the number of packets it wrote, which
\* is the one packet at the counter's index or none.
C17_CounterInvariant ==
    [][state'.cls = "SendFlashData_04" =>
        /\ state'.packetNum \in 0..PacketTotal
        /\ state'.packetNum = Len(txLog') - 2
        /\ IF state.cls = "SendFlashData_04"
           THEN /\ written' = NextPacket
                /\ state'.packetNum = state.packetNum + Len(written')
           ELSE /\ state = Prepare2Flash_03
                /\ HasOpcode(serialString', 130)
                /\ written' = << >>
                /\ state'.packetNum = 0
    ]_vars

\* SendFlashData_04 just entered: counter 0, the session has written the two
\* replies only.
C17_Witness ==
    /\ state = SendFlashData_04
    /\ HasOpcode(serialString, 130)
    /\ ticksIn = 0
    /\ Len(txLog) = 2

\* C18: Early termination of streaming. In SendFlashData_04 a 4-byte frame
\* with opcode 0x84 leads to FlashDone_99 and one with opcode 0x8F to Error_98
\* on that tick, whatever the counter is; in FlashDone_99 and Error_98 nothing
\* is written, and they are left for Idle_01 only, so the packets not yet
\* sent are not sent in that session.
C18_EarlyTermination ==
    [][pc = "loop" =>
        /\ (/\ state.cls = "SendFlashData_04"
            /\ IsFrame(serialString')
            /\ serialString'.bytes[1] = 132)
              => (pc' = "loop" /\ state' = FlashDone_99)
        /\ (/\ state.cls = "SendFlashData_04"
            /\ IsFrame(serialString')
            /\ serialString'.bytes[1] = 143)
              => (pc' = "loop" /\ state' = Error_98)
        /\ state.cls \in {"FlashDone_99", "Error_98"}
              => /\ written' = << >>
                 /\ state' \in {state, Idle_01}
                 /\ state' = state => txLog' = txLog
    ]_vars

\* FlashDone_99 reached after one packet only, and a further tick spent there.
C18_Witness ==
    /\ state = FlashDone_99
    /\ serialString = NoData
    /\ Len(txLog) = 3
    /\ Len(txLog) < PacketTotal + 2

\* C19: Streaming makes progress without input. With the loop running and
\* neither 0x84 nor 0x8F arriving, once the machine is in SendFlashData_04 the
\* counter eventually is packetCount, whatever the ticks read (no data, 0x83,
\* any other read), and from then on the machine stays in SendFlashData_04
\* with that counter.
C19_StreamingProgress ==
    (state.cls = "SendFlashData_04")
        ~> [](state.cls = "SendFlashData_04" /\ state.packetNum = PacketTotal)

\* Every packet sent, and a further tick with a 0x83 frame spent in the state.
C19_Witness ==
    /\ state.cls = "SendFlashData_04"
    /\ state.packetNum = PacketTotal
    /\ ticksIn > PacketTotal
    /\ serialString = Data(<<131, 6, 0, 255>>)

\* C20: Session driver exit. Every iteration of the loop ends at the exit
\* check: attemptCntr has grown by one if the poll returned no data and is
\* unchanged otherwise, and the loop is left, the port closed, exactly when
\* the key is pressed at the check or attemptCntr has reached the budget; so
\* an iteration whose poll returned data, with no key pressed, stays in the
\* loop.
C20_DriverExit ==
    [][pc = "loop" =>
        /\ attemptCntr' = attemptCntr + (IF serialString'.isNone THEN 1 ELSE 0)
        /\ pc' \in {"loop", "closed"}
        /\ pc' = "closed" <=> (cancel' \/ attemptCntr' >= AttemptBudget)
    ]_vars

----------------------------------------------------------------------------
(* C21..C22 *)

C22_ImageReadOnly ==
    [][pc = "loop" =>
        /\ binaryFile'.fileData = binaryFile.fileData
        /\ binaryFile'.fileSizeBytes = binaryFile.fileSizeBytes
        /\ binaryFile'.filePackets = binaryFile.filePackets
        /\ binaryFile'.fileSizePackets = binaryFile.fileSizePackets
        /\ binaryFile'.SW_MAJOR = binaryFile.SW_MAJOR
        /\ binaryFile'.SW_MINOR = binaryFile.SW_MINOR
        /\ binaryFile'.CRC_MSB = binaryFile.CRC_MSB
        /\ binaryFile'.CRC_LSB = binaryFile.CRC_LSB
        /\ \/ state' \in {Idle_01, CheckHeaderAndEraseMem_02, Prepare2Flash_03,
                           FlashDone_99, Error_98}
           \/ \E n \in 0..PacketTotal : state' = [SendFlashData_04 EXCEPT !.packetNum = n]
    ]_vars

\* Every packet has been streamed and the image is what loadBinary made of
\* the file.
C22_Witness ==
    /\ state.cls = "SendFlashData_04"
    /\ state.packetNum = PacketTotal
    /\ serialString = Data(<<129, 6, 0, 255>>)
    /\ binaryFile.fileSizePackets = PacketCount(binaryFile.fileData)
    /\ binaryFile.filePackets = Packets(binaryFile.fileData)
    /\ 256 * binaryFile.CRC_MSB + binaryFile.CRC_LSB = Crc16(binaryFile.fileData)

====
